---- MODULE Spec2Model ----
(***************************************************************************)
(* The compile-time package-initializer interpreter (package interp):      *)
(* the driver Run, the frame loop Eval.function and Eval.markDirty, with   *)
(* the basic-block evaluator and the writeback they rely on.               *)
(***************************************************************************)
EXTENDS Integers, Sequences, FiniteSets, TLC

\* Largest number of instructions before the return of the aggregator's
\* entry block in the modules that are explored.
MaxCalls == 2

\* The ceiling on the frames of one evaluation in the modules explored.
MaxDepth == 3

Nil == "nil"

----------------------------------------------------------------------------
(* The input module: globals, functions and the aggregator's entry block.  *)

\* Global variables of the module; "k" has constant linkage.
Globals == {"g1", "g2", "k"}
ConstGlobals == {"k"}

\* The initializer every global carries in the input module.
InitialValue == [g \in Globals |-> 0]

\* Instructions of a function body.
Store(g, v) == [op |-> "store", dst |-> g, val |-> v, src |-> Nil, callee |-> Nil]
Copy(g, h) == [op |-> "copy", dst |-> g, val |-> 0, src |-> h, callee |-> Nil]
Runtime == [op |-> "runtime", dst |-> Nil, val |-> 0, src |-> Nil, callee |-> Nil]
Call(f) == [op |-> "call", dst |-> Nil, val |-> 0, src |-> Nil, callee |-> f]
\* A store through a constant getelementptr over global g.
StoreGep(g, v) == [op |-> "storegep", dst |-> g, val |-> v, src |-> Nil, callee |-> Nil]

\* Terminators of a basic block.
Ret == [op |-> "ret", target |-> 0]
Br(b) == [op |-> "br", target |-> b]
Unreachable == [op |-> "unreachable", target |-> 0]
\* A conditional branch; its condition is the constant "true" or "false", or
\* "unknown" when it is no constant.
CondBr(c, t, e) == [op |-> "condbr", target |-> t, cond |-> c, else |-> e]

\* The functions of the module.
Funcs == {"A", "B", "C", "D", "E", "F", "G", "H", "I", "J", "L", "P", "R", "S"}

\* The functions that only other functions call.
CalleesOnly == {"P", "S"}

\* The symbol name of each function, as a sequence of characters.
DotInit == <<".", "i", "n", "i", "t">>
FnName(f) ==
    CASE f = "A" -> <<"a">> \o DotInit
      [] f = "B" -> <<"b">> \o DotInit
      [] f = "C" -> <<"c">> \o DotInit
      [] f = "D" -> <<"d">> \o DotInit
      [] f = "E" -> <<"e">> \o DotInit
      [] f = "F" -> <<"f">> \o DotInit
      [] f = "G" -> <<"g">> \o DotInit
      [] f = "I" -> <<"i">> \o DotInit
      [] f = "J" -> <<"j">> \o DotInit
      [] f = "L" -> <<"l">> \o DotInit
      [] f = "R" -> <<"r">> \o DotInit
      [] f = "S" -> <<"r", ".", "s">>
      [] f = "P" -> <<"g", ".", "p">>
      [] OTHER -> <<"h", ".", "s", "e", "t">>

\* The basic blocks of each function; block 1 is the entry block.
Body(f) ==
    CASE f = "A" -> << [insts |-> <<Store("g1", 1)>>, term |-> Ret] >>
      [] f = "B" -> << [insts |-> <<Copy("g2", "g1")>>, term |-> Br(2)],
                       [insts |-> <<Store("g1", 2)>>, term |-> Ret] >>
      [] f = "C" -> << [insts |-> <<Store("g2", 3), Runtime>>, term |-> Ret] >>
      [] f = "D" -> << [insts |-> <<>>, term |-> Unreachable] >>
      [] f = "E" -> << [insts |-> <<Store("k", 1)>>, term |-> Ret] >>
      [] f = "F" -> << [insts |-> <<Call("H"), Copy("g1", "g2")>>, term |-> Ret] >>
      [] f = "G" -> << [insts |-> <<Call("P"), StoreGep("g1", 3)>>, term |-> Ret] >>
      [] f = "P" -> << [insts |-> <<>>, term |-> Ret] >>
      [] f = "I" -> << [insts |-> <<>>, term |-> CondBr("true", 2, 3)],
                       [insts |-> <<Store("g2", 1)>>, term |-> CondBr("false", 1, 3)],
                       [insts |-> <<Copy("g1", "g2")>>, term |-> Ret] >>
      [] f = "J" -> << [insts |-> <<Store("g1", 1)>>, term |-> CondBr("unknown", 2, 2)],
                       [insts |-> <<>>, term |-> Ret] >>
      [] f = "L" -> << [insts |-> <<>>, term |-> Br(2)],
                       [insts |-> <<Store("g2", 2)>>, term |-> Br(1)] >>
      [] f = "R" -> << [insts |-> <<Store("g1", 3), Call("S")>>, term |-> Ret] >>
      [] f = "S" -> << [insts |-> <<Call("R")>>, term |-> Ret] >>
      [] OTHER -> << [insts |-> <<Store("g2", 2)>>, term |-> Ret] >>

\* Instructions of the aggregator's entry block. An instruction is identified
\* by its id (its position in the input block); the anchor has id 0.
DirectCall(i, f) == [id |-> i, op |-> "call", callee |-> f, direct |-> TRUE]
IndirectCall(i) == [id |-> i, op |-> "call", callee |-> Nil, direct |-> FALSE]
Alloca(i) == [id |-> i, op |-> "alloca", callee |-> Nil, direct |-> FALSE]
RetVoid(i) == [id |-> i, op |-> "ret", callee |-> Nil, direct |-> FALSE]

Kinds == (Funcs \ CalleesOnly) \cup {"indirect", "alloca"}
Inst(i, k) ==
    IF k = "indirect" THEN IndirectCall(i)
    ELSE IF k = "alloca" THEN Alloca(i)
    ELSE DirectCall(i, k)

\* The entry blocks explored: up to MaxCalls instructions, then ret void.
EntryBlocks ==
    UNION { { [i \in 1..(n + 1) |-> IF i <= n THEN Inst(i, ks[i]) ELSE RetVoid(i)]
              : ks \in [1..n -> Kinds] } : n \in 0..MaxCalls }

----------------------------------------------------------------------------
(* State.                                                                  *)

VARIABLES
    pc,               \* position of Run
    block,            \* instructions of the aggregator's entry block
    cursor,           \* the collection loop's iterator (index into block)
    initCalls,        \* Run's initCalls slice
    idx,              \* index of the range loop over initCalls
    dirtyGlobals,     \* Eval.dirtyGlobals
    sideEffectFuncs,  \* Eval.sideEffectFuncs: the functions with a cached result
    mem,              \* abstract memory: the value held for each global
    globals,          \* the initializer of each global in the module
    stack,            \* active calls of Eval.function, outermost first
    bbres,            \* pending result of the top frame's evalBasicBlock
    fnres,            \* pending result of Eval.function for its caller
    err,              \* what Run returned
    orig,             \* the entry block of the input module
    log,              \* what the driver did, in order
    runs,             \* how many times Run was invoked on the module
    debug,            \* Run's debug parameter
    trace,            \* number of lines Run has printed
    first,            \* the outcome of an earlier invocation of Run
    rv,               \* package reflect: a Value and the memory it refers to
    other             \* a Run on another module, while this one has the processor

vars == <<pc, block, cursor, initCalls, idx, dirtyGlobals, sideEffectFuncs, mem,
          globals, stack, bbres, fnres, err, orig, log, runs, debug, trace, first, rv,
          other>>

\* What no step of Run changes.
given == <<orig, runs, debug, first, rv, other>>

NoBBRes == [valid |-> FALSE, outgoing |-> <<>>, err |-> Nil]
NoFnRes == [valid |-> FALSE, err |-> Nil]
Pending == "pending"

\* No earlier invocation of Run.
NoOutcome ==
    [valid |-> FALSE, bb |-> <<>>, globals |-> InitialValue, dirty |-> {},
     err |-> Nil, debug |-> FALSE]

\* The state of package reflect before any Value was made.
NoValue == [valid |-> FALSE]

\* No other Run.
NoOther == [valid |-> FALSE]

Init ==
    /\ orig \in EntryBlocks
    /\ block = orig
    /\ pc = "start"
    /\ cursor = 0
    /\ initCalls = <<>>
    /\ idx = 0
    /\ dirtyGlobals = {}
    /\ sideEffectFuncs = {}
    /\ mem = InitialValue
    /\ globals = InitialValue
    /\ stack = <<>>
    /\ bbres = NoBBRes
    /\ fnres = NoFnRes
    /\ err = Pending
    /\ log = <<>>
    /\ runs = 1
    /\ debug \in BOOLEAN
    /\ trace = 0
    /\ first = NoOutcome
    /\ rv = NoValue
    /\ other = NoOther

----------------------------------------------------------------------------
(* LLVM values and helpers.                                                *)

\* LLVM values as markDirty tells them apart.
GlobalVar(g) == [kind |-> "global", g |-> g, ops |-> <<>>]
ConstExpr(ops) == [kind |-> "const", g |-> Nil, ops |-> ops]
UndefPtr == [kind |-> "const", g |-> Nil, ops |-> <<>>]
ConstInt == [kind |-> "const", g |-> Nil, ops |-> <<>>]

IsGlobalConstant(g) == g \in ConstGlobals

\* strings.HasSuffix
HasSuffix(s, suffix) ==
    /\ Len(s) >= Len(suffix)
    /\ SubSeq(s, Len(s) - Len(suffix) + 1, Len(s)) = suffix

\* initName[:len(initName)-5]
PkgName(initName) == SubSeq(initName, 1, Len(initName) - 5)

\* inst is a call instruction, whatever it calls.
IsAnyCall(inst) == inst.op = "call"

\* inst is a call instruction whose called value is a function.
IsDirectCall(inst) == inst.op = "call" /\ inst.direct

\* The anchor Run inserts at the start of the entry block: a new instruction
\* at every invocation.
dummy == Alloca(1 - runs)

\* The lines of trace output that are counted.
MaxTrace == 24

\* println, when the debug flag is set.
Println == trace' = IF debug /\ trace < MaxTrace THEN trace + 1 ELSE trace

\* builder.SetInsertPointBefore(bb.FirstInstruction()); CreateAlloca
InsertDummy(bb) == <<dummy>> \o bb

\* Erasure of every call of the erased call's callee.
EraseAllCallers(bb, inst) ==
    SelectSeq(bb, LAMBDA x : x.op # "call" \/ x.callee # inst.callee)

\* Erasure that leaves the block as it is.
EraseNothing(bb, inst) == bb

\* call.EraseFromParentAsInstruction()
EraseFromParentAsInstruction(bb, inst) == SelectSeq(bb, LAMBDA x : x # inst)

\* The collected call put in front of the earlier ones.
PrependCall(calls, inst) == <<inst>> \o calls

\* initCalls = append(initCalls, inst)
AppendCall(calls, inst) == Append(calls, inst)

\* markDirty that makes the dirty-set anew for the global it marks.
markDirtyReplace(v, e) ==
    IF v.kind = "global" /\ ~IsGlobalConstant(v.g) /\ v.g \notin e.dirtyGlobals
    THEN [dirtyGlobals |-> {v.g}, sideEffectFuncs |-> {}]
    ELSE e

\* markDirty that leaves the side-effect cache as it is.
markDirtyKeepCache(v, e) ==
    IF v.kind = "global" /\ ~IsGlobalConstant(v.g)
    THEN [dirtyGlobals |-> e.dirtyGlobals \cup {v.g}, sideEffectFuncs |-> e.sideEffectFuncs]
    ELSE e

\* markDirty that takes only a global variable itself for a global.
markDirtyGlobalOnly(v, e) ==
    IF v.kind = "global" /\ ~IsGlobalConstant(v.g) /\ v.g \notin e.dirtyGlobals
    THEN [dirtyGlobals |-> e.dirtyGlobals \cup {v.g}, sideEffectFuncs |-> {}]
    ELSE e

\* Eval.markDirty: the dirty-set and the side-effect cache after markDirty(v)
\* on an Eval e.
RECURSIVE markDirty(_, _)
markDirty(v, e) ==
    IF v.kind = "global" THEN
        IF IsGlobalConstant(v.g) THEN e
        ELSE IF v.g \notin e.dirtyGlobals
        THEN [dirtyGlobals |-> e.dirtyGlobals \cup {v.g}, sideEffectFuncs |-> {}]
        ELSE e
    ELSE IF v.kind = "const" THEN
        IF Len(v.ops) >= 2 /\ v.ops[1].kind = "global"
        THEN markDirty(v.ops[1], e)
        ELSE e
    ELSE e

\* A log entry: what the driver did to which call, and the state it saw.
Entry(ev, call, e, dirty, memory, bb) ==
    [ev |-> ev, call |-> call.id, err |-> e, dirty |-> dirty,
     memory |-> memory, bb |-> bb]

----------------------------------------------------------------------------
(* Run.                                                                    *)

\* Setup with the slice of collected calls kept from an earlier invocation.
SetupKeepCalls ==
    /\ pc = "start"
    /\ dirtyGlobals' = {}
    /\ sideEffectFuncs' = {}
    /\ block' = InsertDummy(block)
    /\ cursor' = 1
    /\ pc' = "collect"
    /\ Println
    /\ UNCHANGED <<initCalls, idx, mem, globals, stack, bbres, fnres, err, given, log>>

\* Setup that inserts the anchor only when the debug flag is not set.
SetupDebugNoAnchor ==
    /\ pc = "start"
    /\ dirtyGlobals' = {}
    /\ sideEffectFuncs' = {}
    /\ block' = IF debug THEN block ELSE InsertDummy(block)
    /\ initCalls' = <<>>
    /\ cursor' = 1
    /\ pc' = "collect"
    /\ Println
    /\ UNCHANGED <<idx, mem, globals, stack, bbres, fnres, err, given, log>>

\* Run, up to the collection loop: the Eval object and the anchor.
Setup ==
    /\ pc = "start"
    /\ dirtyGlobals' = {}
    /\ sideEffectFuncs' = {}
    /\ block' = InsertDummy(block)
    /\ initCalls' = <<>>
    /\ cursor' = 1
    /\ pc' = "collect"
    /\ Println
    /\ UNCHANGED <<idx, mem, globals, stack, bbres, fnres, err, given, log>>

\* One iteration of the loop that collects the init calls.
CollectStep ==
    /\ pc = "collect"
    /\ IF cursor > Len(block) THEN
           /\ pc' = "loop" /\ idx' = 1
           /\ UNCHANGED <<cursor, initCalls, err>>
       ELSE LET inst == block[cursor] IN
           IF inst = dummy THEN
               /\ cursor' = cursor + 1
               /\ UNCHANGED <<pc, idx, initCalls, err>>
           ELSE IF inst.op = "ret" THEN
               /\ pc' = "loop" /\ idx' = 1
               /\ UNCHANGED <<cursor, initCalls, err>>
           ELSE IF ~IsDirectCall(inst) THEN
               /\ err' = "notDirectCalls" /\ pc' = "done"
               /\ UNCHANGED <<cursor, idx, initCalls>>
           ELSE
               /\ initCalls' = AppendCall(initCalls, inst)
               /\ cursor' = cursor + 1
               /\ UNCHANGED <<pc, idx, err>>
    /\ UNCHANGED <<block, dirtyGlobals, sideEffectFuncs, mem, globals, stack,
                   bbres, fnres, given, trace, log>>

\* The head of the loop checking the names of all the calls still to come.
LoopStepChecksAll ==
    /\ pc = "loop"
    /\ IF idx > Len(initCalls) THEN
           /\ pc' = "writeback"
           /\ UNCHANGED <<block, err, log>>
       ELSE LET call == initCalls[idx] IN
           IF \E j \in idx..Len(initCalls) :
                  ~HasSuffix(FnName(initCalls[j].callee), DotInit) THEN
               /\ err' = "notInitCalls" /\ pc' = "done"
               /\ UNCHANGED <<block, log>>
           ELSE
               /\ block' = EraseFromParentAsInstruction(block, call)
               /\ log' = Append(log, Entry("erase", call, Nil, dirtyGlobals, mem, block))
               /\ pc' = "call"
               /\ UNCHANGED err
    /\ UNCHANGED <<cursor, initCalls, idx, dirtyGlobals, sideEffectFuncs, mem,
                   globals, stack, bbres, fnres, given, trace>>

\* The head of the loop without the erasure of the call.
LoopStepNoErase ==
    /\ pc = "loop"
    /\ IF idx > Len(initCalls) THEN
           /\ pc' = "writeback"
           /\ UNCHANGED <<block, err, log>>
       ELSE LET call == initCalls[idx] IN
           IF ~HasSuffix(FnName(call.callee), DotInit) THEN
               /\ err' = "notInitCalls" /\ pc' = "done"
               /\ UNCHANGED <<block, log>>
           ELSE
               /\ log' = Append(log, Entry("erase", call, Nil, dirtyGlobals, mem, block))
               /\ pc' = "call"
               /\ UNCHANGED <<block, err>>
    /\ UNCHANGED <<cursor, initCalls, idx, dirtyGlobals, sideEffectFuncs, mem,
                   globals, stack, bbres, fnres, given, trace>>

\* The head of the loop over initCalls: the name check and the erasure.
LoopStep ==
    /\ pc = "loop"
    /\ IF idx > Len(initCalls) THEN
           /\ pc' = "writeback"
           /\ UNCHANGED <<block, err, log>>
       ELSE LET call == initCalls[idx] IN
           IF ~HasSuffix(FnName(call.callee), DotInit) THEN
               /\ err' = "notInitCalls" /\ pc' = "done"
               /\ UNCHANGED <<block, log>>
           ELSE
               /\ block' = EraseFromParentAsInstruction(block, call)
               /\ log' = Append(log, Entry("erase", call, Nil, dirtyGlobals, mem, block))
               /\ pc' = "call"
               /\ UNCHANGED err
    /\ UNCHANGED <<cursor, initCalls, idx, dirtyGlobals, sideEffectFuncs, mem,
                   globals, stack, bbres, fnres, given, trace>>

\* Eval.function, up to its block loop: the frame of a call of fn.
NewFrame(fn, params, pkgName) ==
    [fn |-> fn, pkgName |-> pkgName, locals |-> params, bb |-> 1, lastBB |-> 0,
     ip |-> 1]

\* CallFunction with an Eval made anew for every init.
CallFunctionFreshEval ==
    /\ pc = "call"
    /\ dirtyGlobals' = {}
    /\ sideEffectFuncs' = {}
    /\ UNCHANGED <<block, cursor, initCalls, idx, mem, globals, bbres, fnres, err, given, trace>>
    /\ LET call == initCalls[idx] IN
        /\ stack' = <<NewFrame(call.callee, <<UndefPtr, UndefPtr>>,
                               PkgName(FnName(call.callee)))>>
        /\ log' = Append(log, Entry("start", call, Nil, dirtyGlobals', mem', block'))
    /\ pc' = "eval"

\* e.Function(fn, {undef, undef}, pkgName) for the erased call.
CallFunction ==
    /\ pc = "call"
    /\ UNCHANGED <<block, cursor, initCalls, idx, dirtyGlobals, sideEffectFuncs,
                   mem, globals, bbres, fnres, err, given, trace>>
    /\ LET call == initCalls[idx] IN
        /\ stack' = <<NewFrame(call.callee, <<UndefPtr, UndefPtr>>,
                               PkgName(FnName(call.callee)))>>
        /\ log' = Append(log, Entry("start", call, Nil, dirtyGlobals', mem', block'))
    /\ pc' = "eval"

\* AfterFunction without the case of ErrUnreachable.
AfterFunctionNoBreak ==
    /\ pc = "eval" /\ stack = <<>> /\ fnres.valid
    /\ log' = Append(log, Entry("end", initCalls[idx], fnres.err, dirtyGlobals, mem, block))
    /\ fnres' = NoFnRes
    /\ IF fnres.err # Nil THEN
           /\ err' = fnres.err /\ pc' = "done"
           /\ UNCHANGED idx
       ELSE
           /\ idx' = idx + 1 /\ pc' = "loop"
           /\ UNCHANGED err
    /\ UNCHANGED <<block, cursor, initCalls, dirtyGlobals, sideEffectFuncs, mem,
                   globals, stack, bbres, given, trace>>

\* The loop going on to the next init whatever error Function returned.
AfterFunctionSwallow ==
    /\ pc = "eval" /\ stack = <<>> /\ fnres.valid
    /\ log' = Append(log, Entry("end", initCalls[idx], fnres.err, dirtyGlobals, mem, block))
    /\ fnres' = NoFnRes
    /\ IF fnres.err = "unreachable" THEN
           /\ pc' = "writeback"
           /\ UNCHANGED idx
       ELSE
           /\ idx' = idx + 1 /\ pc' = "loop"
    /\ UNCHANGED <<block, cursor, initCalls, dirtyGlobals, sideEffectFuncs, mem,
                   globals, stack, bbres, err, given, trace>>

\* What Run does with the error e.Function returned.
AfterFunction ==
    /\ pc = "eval" /\ stack = <<>> /\ fnres.valid
    /\ log' = Append(log, Entry("end", initCalls[idx], fnres.err, dirtyGlobals, mem, block))
    /\ fnres' = NoFnRes
    /\ IF fnres.err = "unreachable" THEN
           /\ pc' = "writeback"
           /\ UNCHANGED <<idx, err>>
       ELSE IF fnres.err # Nil THEN
           /\ err' = fnres.err /\ pc' = "done"
           /\ UNCHANGED idx
       ELSE
           /\ idx' = idx + 1 /\ pc' = "loop"
           /\ UNCHANGED err
    /\ UNCHANGED <<block, cursor, initCalls, dirtyGlobals, sideEffectFuncs, mem,
                   globals, stack, bbres, given, trace>>

\* Writeback: every dirty global gets the constant held in abstract memory.
Writeback ==
    /\ pc = "writeback"
    /\ globals' = [g \in Globals |-> IF g \in dirtyGlobals THEN mem[g] ELSE globals[g]]
    /\ pc' = "return"
    /\ UNCHANGED <<block, cursor, initCalls, idx, dirtyGlobals, sideEffectFuncs,
                   mem, stack, bbres, fnres, err, given, trace, log>>

\* return nil
Return ==
    /\ pc = "return"
    /\ err' = Nil
    /\ pc' = "done"
    /\ UNCHANGED <<block, cursor, initCalls, idx, dirtyGlobals, sideEffectFuncs,
                   mem, globals, stack, bbres, fnres, given, trace, log>>

----------------------------------------------------------------------------
(* Frames: evalBasicBlock and the block loop of Eval.function.             *)

Top == stack[Len(stack)]
CurBlock == Body(Top.fn)[Top.bb]
SetTop(fr) == [stack EXCEPT ![Len(stack)] = fr]

\* evalBasicBlock failed with error e: no return value, no outgoing block.
Failed(e) == [valid |-> TRUE, outgoing |-> <<>>, err |-> e]

\* The top frame is inside evalBasicBlock, at instruction ip of its block.
InBlock ==
    /\ pc = "eval" /\ stack # <<>>
    /\ ~bbres.valid /\ ~fnres.valid

\* evalBasicBlock on a store (to a global or through a constant getelementptr
\* over it), a load-and-store or an instruction that needs runtime state.
EvalInst ==
    /\ InBlock
    /\ Top.ip <= Len(CurBlock.insts)
    /\ LET inst == CurBlock.insts[Top.ip] IN
        /\ inst.op \in {"store", "storegep", "copy", "runtime"}
        /\ IF inst.op = "runtime" THEN
               /\ bbres' = Failed("unevaluable")
               /\ UNCHANGED <<dirtyGlobals, sideEffectFuncs, mem, stack>>
           ELSE IF IsGlobalConstant(inst.dst) THEN
               /\ bbres' = Failed("writeToConstant")
               /\ UNCHANGED <<dirtyGlobals, sideEffectFuncs, mem, stack>>
           ELSE
               LET ptr == IF inst.op = "storegep"
                          THEN ConstExpr(<<GlobalVar(inst.dst), ConstInt>>)
                          ELSE GlobalVar(inst.dst)
                   e == markDirty(ptr, [dirtyGlobals |-> dirtyGlobals,
                                        sideEffectFuncs |-> sideEffectFuncs])
                   v == IF inst.op = "copy" THEN mem[inst.src] ELSE inst.val
               IN  /\ dirtyGlobals' = e.dirtyGlobals
                   /\ sideEffectFuncs' = e.sideEffectFuncs
                   /\ mem' = [mem EXCEPT ![inst.dst] = v]
                   /\ stack' = SetTop([Top EXCEPT !.ip = @ + 1])
                   /\ UNCHANGED bbres
    /\ Println
    /\ UNCHANGED <<pc, block, cursor, initCalls, idx, globals, fnres, err, given, log>>

\* The side-effect cache after the classification of fn was asked for: a
\* cached result is used, a new one is computed against the dirty-set.
Classify(cache, fn, dirty) ==
    IF \E r \in cache : r.fn = fn THEN cache
    ELSE cache \cup {[fn |-> fn, dirty |-> dirty]}

\* evalBasicBlock on a direct call: the callee's side effects are classified
\* (and the result cached), then the callee is evaluated in a new frame, unless
\* the frames have reached the ceiling.
EvalCall ==
    /\ InBlock
    /\ Top.ip <= Len(CurBlock.insts)
    /\ LET inst == CurBlock.insts[Top.ip] IN
        /\ inst.op = "call"
        /\ sideEffectFuncs' = Classify(sideEffectFuncs, inst.callee, dirtyGlobals)
        /\ IF Len(stack) >= MaxDepth THEN
               /\ bbres' = Failed("unevaluable")
               /\ UNCHANGED stack
           ELSE
               /\ stack' = Append(stack, NewFrame(inst.callee, <<UndefPtr, UndefPtr>>,
                                                  Top.pkgName))
               /\ UNCHANGED bbres
    /\ Println
    /\ UNCHANGED <<pc, block, cursor, initCalls, idx, dirtyGlobals, mem, globals,
                   fnres, err, given, log>>

\* evalBasicBlock on the callee's return: an error ends the caller's block.
CallReturn ==
    /\ pc = "eval" /\ stack # <<>> /\ fnres.valid
    /\ fnres' = NoFnRes
    /\ IF fnres.err # Nil THEN
           /\ bbres' = Failed(fnres.err)
           /\ UNCHANGED stack
       ELSE
           /\ stack' = SetTop([Top EXCEPT !.ip = @ + 1])
           /\ UNCHANGED bbres
    /\ UNCHANGED <<pc, block, cursor, initCalls, idx, dirtyGlobals, sideEffectFuncs,
                   mem, globals, err, given, trace, log>>

\* evalBasicBlock on the block's terminator.
EvalTerminator ==
    /\ InBlock
    /\ Top.ip = Len(CurBlock.insts) + 1
    /\ LET t == CurBlock.term IN
        bbres' = IF t.op = "ret" THEN [valid |-> TRUE, outgoing |-> <<>>, err |-> Nil]
                 ELSE IF t.op = "br"
                 THEN [valid |-> TRUE, outgoing |-> <<t.target>>, err |-> Nil]
                 ELSE IF t.op = "condbr" THEN
                     IF t.cond = "unknown" THEN Failed("unevaluable")
                     ELSE [valid |-> TRUE, err |-> Nil,
                           outgoing |-> <<IF t.cond = "true" THEN t.target ELSE t.else>>]
                 ELSE Failed("unreachable")
    /\ Println
    /\ UNCHANGED <<pc, block, cursor, initCalls, idx, dirtyGlobals, sideEffectFuncs,
                   mem, globals, stack, fnres, err, given, log>>

\* The block loop returning only when evalBasicBlock reported an error.
FunctionLoopErrOnly ==
    /\ pc = "eval" /\ stack # <<>> /\ bbres.valid
    /\ bbres' = NoBBRes
    /\ IF bbres.outgoing = <<>> /\ bbres.err # Nil THEN
           /\ fnres' = [valid |-> TRUE, err |-> bbres.err]
           /\ stack' = SubSeq(stack, 1, Len(stack) - 1)
           /\ UNCHANGED pc
       ELSE IF Len(bbres.outgoing) # 1 THEN
           /\ pc' = "panic"
           /\ UNCHANGED <<stack, fnres>>
       ELSE
           /\ stack' = SetTop([Top EXCEPT !.lastBB = Top.bb,
                                          !.bb = bbres.outgoing[1], !.ip = 1])
           /\ UNCHANGED <<pc, fnres>>
    /\ UNCHANGED <<block, cursor, initCalls, idx, dirtyGlobals, sideEffectFuncs,
                   mem, globals, err, given, trace, log>>

\* The block loop returning without the error evalBasicBlock reported.
FunctionLoopDropsError ==
    /\ pc = "eval" /\ stack # <<>> /\ bbres.valid
    /\ bbres' = NoBBRes
    /\ IF bbres.outgoing = <<>> THEN
           /\ fnres' = [valid |-> TRUE, err |-> Nil]
           /\ stack' = SubSeq(stack, 1, Len(stack) - 1)
           /\ UNCHANGED pc
       ELSE IF Len(bbres.outgoing) > 1 THEN
           /\ pc' = "panic"
           /\ UNCHANGED <<stack, fnres>>
       ELSE
           /\ stack' = SetTop([Top EXCEPT !.lastBB = Top.bb,
                                          !.bb = bbres.outgoing[1], !.ip = 1])
           /\ UNCHANGED <<pc, fnres>>
    /\ UNCHANGED <<block, cursor, initCalls, idx, dirtyGlobals, sideEffectFuncs,
                   mem, globals, err, given, trace, log>>

\* The block loop that goes to the next block without recording lastBB.
FunctionLoopNoLastBB ==
    /\ pc = "eval" /\ stack # <<>> /\ bbres.valid
    /\ bbres' = NoBBRes
    /\ IF bbres.outgoing = <<>> THEN
           /\ fnres' = [valid |-> TRUE, err |-> bbres.err]
           /\ stack' = SubSeq(stack, 1, Len(stack) - 1)
           /\ UNCHANGED pc
       ELSE IF Len(bbres.outgoing) > 1 THEN
           /\ pc' = "panic"
           /\ UNCHANGED <<stack, fnres>>
       ELSE
           /\ stack' = SetTop([Top EXCEPT !.bb = bbres.outgoing[1], !.ip = 1])
           /\ UNCHANGED <<pc, fnres>>
    /\ UNCHANGED <<block, cursor, initCalls, idx, dirtyGlobals, sideEffectFuncs,
                   mem, globals, err, given, trace, log>>

\* The block loop that records lastBB but stays on the same block.
FunctionLoopNoAdvance ==
    /\ pc = "eval" /\ stack # <<>> /\ bbres.valid
    /\ bbres' = NoBBRes
    /\ IF bbres.outgoing = <<>> THEN
           /\ fnres' = [valid |-> TRUE, err |-> bbres.err]
           /\ stack' = SubSeq(stack, 1, Len(stack) - 1)
           /\ UNCHANGED pc
       ELSE IF Len(bbres.outgoing) > 1 THEN
           /\ pc' = "panic"
           /\ UNCHANGED <<stack, fnres>>
       ELSE
           /\ stack' = SetTop([Top EXCEPT !.lastBB = Top.bb, !.ip = 1])
           /\ UNCHANGED <<pc, fnres>>
    /\ UNCHANGED <<block, cursor, initCalls, idx, dirtyGlobals, sideEffectFuncs,
                   mem, globals, err, given, trace, log>>

\* The block loop of Eval.function, on the result of evalBasicBlock.
FunctionLoop ==
    /\ pc = "eval" /\ stack # <<>> /\ bbres.valid
    /\ bbres' = NoBBRes
    /\ IF bbres.outgoing = <<>> THEN
           /\ fnres' = [valid |-> TRUE, err |-> bbres.err]
           /\ stack' = SubSeq(stack, 1, Len(stack) - 1)
           /\ UNCHANGED pc
       ELSE IF Len(bbres.outgoing) > 1 THEN
           /\ pc' = "panic"
           /\ UNCHANGED <<stack, fnres>>
       ELSE
           /\ stack' = SetTop([Top EXCEPT !.lastBB = Top.bb,
                                          !.bb = bbres.outgoing[1], !.ip = 1])
           /\ UNCHANGED <<pc, fnres>>
    /\ UNCHANGED <<block, cursor, initCalls, idx, dirtyGlobals, sideEffectFuncs,
                   mem, globals, err, given, trace, log>>

----------------------------------------------------------------------------

\* What an invocation of Run left behind.
Outcome ==
    [valid |-> TRUE, bb |-> block, globals |-> globals, dirty |-> dirtyGlobals,
     err |-> err, debug |-> debug]

\* Run is invoked again on the module its first invocation left. Abstract
\* memory is made anew from the initializers of the module.
RunAgain ==
    /\ pc = "done" /\ ~first.valid
    /\ first' = Outcome
    /\ runs' = runs + 1
    /\ orig' = block
    /\ mem' = globals
    /\ pc' = "start"
    /\ idx' = 0 /\ stack' = <<>> /\ bbres' = NoBBRes /\ fnres' = NoFnRes
    /\ err' = Pending /\ log' = <<>> /\ trace' = 0
    /\ UNCHANGED <<block, cursor, initCalls, dirtyGlobals, sideEffectFuncs, globals,
                   debug, rv, other>>

\* Run is invoked on another module equal to the input module, with either
\* value of the debug flag.
RunSame ==
    /\ pc = "done" /\ ~first.valid
    /\ first' = Outcome
    /\ block' = orig
    /\ globals' = InitialValue
    /\ mem' = InitialValue
    /\ debug' \in BOOLEAN
    /\ pc' = "start"
    /\ idx' = 0 /\ stack' = <<>> /\ bbres' = NoBBRes /\ fnres' = NoFnRes
    /\ err' = Pending /\ log' = <<>> /\ trace' = 0
    /\ UNCHANGED <<cursor, initCalls, dirtyGlobals, sideEffectFuncs, orig, runs, rv,
                   other>>

Next ==
    \/ Setup
    \/ CollectStep
    \/ LoopStep
    \/ CallFunction
    \/ EvalInst
    \/ EvalCall
    \/ CallReturn
    \/ EvalTerminator
    \/ FunctionLoop
    \/ AfterFunction
    \/ Writeback
    \/ Return

Spec == Init /\ [][Next]_vars

\* Run with every step that can be taken taken in the end: the process goes
\* on running.
SpecLive == Init /\ [][Next]_vars /\ WF_vars(Next)

\* Run, and Run again on its own output.
NextTwice == Next \/ RunAgain
SpecTwice == Init /\ [][NextTwice]_vars

\* Run, and Run on an equal module.
NextPair == Next \/ RunSame
SpecPair == Init /\ [][NextPair]_vars

\* The modules of the parallel subtests.
ParModules ==
    {<<DirectCall(1, "A"), DirectCall(2, "B"), RetVoid(3)>>,
     <<DirectCall(1, "G"), RetVoid(2)>>,
     <<DirectCall(1, "C"), RetVoid(2)>>,
     <<DirectCall(1, "B"), DirectCall(2, "R"), RetVoid(3)>>}

\* The Run that has the processor, as the record kept of one that has not.
Self(id) ==
    [valid |-> TRUE, id |-> id, pc |-> pc, block |-> block, cursor |-> cursor,
     initCalls |-> initCalls, idx |-> idx, dirtyGlobals |-> dirtyGlobals,
     sideEffectFuncs |-> sideEffectFuncs, mem |-> mem, globals |-> globals,
     stack |-> stack, bbres |-> bbres, fnres |-> fnres, err |-> err, orig |-> orig,
     log |-> log, trace |-> trace]

\* A subtest about to call Run on module m.
Subtest(id, m) ==
    [valid |-> TRUE, id |-> id, pc |-> "start", block |-> m, cursor |-> 0,
     initCalls |-> <<>>, idx |-> 0, dirtyGlobals |-> {}, sideEffectFuncs |-> {},
     mem |-> InitialValue, globals |-> InitialValue, stack |-> <<>>,
     bbres |-> NoBBRes, fnres |-> NoFnRes, err |-> Pending, orig |-> m,
     log |-> <<>>, trace |-> 0]

\* The modules under test, each run alone first.
InitPar ==
    /\ orig \in ParModules
    /\ block = orig
    /\ pc = "start"
    /\ cursor = 0
    /\ initCalls = <<>>
    /\ idx = 0
    /\ dirtyGlobals = {}
    /\ sideEffectFuncs = {}
    /\ mem = InitialValue
    /\ globals = InitialValue
    /\ stack = <<>>
    /\ bbres = NoBBRes
    /\ fnres = NoFnRes
    /\ err = Pending
    /\ log = <<>>
    /\ runs = 1
    /\ debug = FALSE
    /\ trace = 0
    /\ first = NoOutcome
    /\ rv = NoValue
    /\ other = NoOther

\* Two subtests start in parallel: one on a module equal to the one that was
\* run alone, one on any of the modules.
RunBoth ==
    /\ pc = "done" /\ ~first.valid /\ ~other.valid
    /\ first' = Outcome
    /\ block' = orig
    /\ globals' = InitialValue
    /\ mem' = InitialValue
    /\ pc' = "start"
    /\ idx' = 0 /\ stack' = <<>> /\ bbres' = NoBBRes /\ fnres' = NoFnRes
    /\ err' = Pending /\ log' = <<>> /\ trace' = 0
    /\ \E m \in ParModules : other' = Subtest(2, m)
    /\ UNCHANGED <<cursor, initCalls, dirtyGlobals, sideEffectFuncs, orig, runs, debug,
                   rv>>

\* The scheduler with the Eval of the two Runs being one object.
YieldSharedEval ==
    /\ other.valid
    /\ other' = Self(3 - other.id)
    /\ pc' = other.pc /\ block' = other.block /\ cursor' = other.cursor
    /\ initCalls' = other.initCalls /\ idx' = other.idx
    /\ mem' = other.mem /\ globals' = other.globals /\ stack' = other.stack
    /\ bbres' = other.bbres /\ fnres' = other.fnres /\ err' = other.err
    /\ orig' = other.orig /\ log' = other.log /\ trace' = other.trace
    /\ UNCHANGED <<dirtyGlobals, sideEffectFuncs, runs, debug, first, rv>>

\* The scheduler gives the processor to the other subtest: everything a Run
\* works on is its own (its module, its Eval, its locals).
Yield ==
    /\ other.valid
    /\ other' = Self(3 - other.id)
    /\ pc' = other.pc /\ block' = other.block /\ cursor' = other.cursor
    /\ initCalls' = other.initCalls /\ idx' = other.idx
    /\ dirtyGlobals' = other.dirtyGlobals /\ sideEffectFuncs' = other.sideEffectFuncs
    /\ mem' = other.mem /\ globals' = other.globals /\ stack' = other.stack
    /\ bbres' = other.bbres /\ fnres' = other.fnres /\ err' = other.err
    /\ orig' = other.orig /\ log' = other.log /\ trace' = other.trace
    /\ UNCHANGED <<runs, debug, first, rv>>

\* Run alone, then two Runs in parallel.
NextPar == Next \/ RunBoth \/ Yield
SpecPar == InitPar /\ [][NextPar]_vars

----------------------------------------------------------------------------
(* Eval.markDirty on the values an evaluation can hand to it.              *)

\* A non-constant value that is no global: a local, or a getelementptr
\* instruction.
LocalInst == [kind |-> "local", g |-> Nil, ops |-> <<>>]
GepInst(g) == [kind |-> "gepinst", g |-> Nil, ops |-> <<GlobalVar(g), ConstInt>>]

\* Whether markDirty(v) panics ("interp: todo: GEP").
markDirtyPanics(v) == v.kind = "gepinst"

\* A value passed to markDirty: what it is in the IR (is, and the global g it
\* is built over, if any) and what markDirty can tell of it (v). The constant
\* comparison icmp eq (@g, undef) and the constant getelementptr over @g both
\* are constants of two operands whose first operand is the global.
MarkArg(is, g, v) == [is |-> is, g |-> g, v |-> v]
MarkArgs ==
    {MarkArg("global", g, GlobalVar(g)) : g \in Globals} \cup
    {MarkArg("gep", g, ConstExpr(<<GlobalVar(g), ConstInt>>)) : g \in Globals} \cup
    {MarkArg("icmp", g, ConstExpr(<<GlobalVar(g), UndefPtr>>)) : g \in Globals} \cup
    {MarkArg("gepinst", g, GepInst(g)) : g \in {"g1"}} \cup
    {MarkArg("int", Nil, ConstInt), MarkArg("local", Nil, LocalInst)}

\* The functions whose side effects are asked for between the calls.
MarkFuncs == {"P", "S", "H"}

\* An Eval just made by Run, with nothing else going on.
InitMark ==
    /\ orig = <<RetVoid(1)>>
    /\ block = orig
    /\ pc = "mark"
    /\ cursor = 0
    /\ initCalls = <<>>
    /\ idx = 0
    /\ dirtyGlobals = {}
    /\ sideEffectFuncs = {}
    /\ mem = InitialValue
    /\ globals = InitialValue
    /\ stack = <<>>
    /\ bbres = NoBBRes
    /\ fnres = NoFnRes
    /\ err = Pending
    /\ log = <<>>
    /\ runs = 1
    /\ debug = FALSE
    /\ trace = 0
    /\ first = NoOutcome
    /\ rv = NoValue
    /\ other = NoOther

\* e.markDirty(a.v); the log keeps the call and the Eval it found.
MarkStep ==
    /\ pc = "mark"
    /\ \E a \in MarkArgs :
        LET e == markDirty(a.v, [dirtyGlobals |-> dirtyGlobals,
                                 sideEffectFuncs |-> sideEffectFuncs])
        IN  /\ log' = <<[ev |-> "mark", arg |-> a, dirty |-> dirtyGlobals,
                         cache |-> sideEffectFuncs]>>
            /\ IF markDirtyPanics(a.v) THEN
                   /\ pc' = "panic"
                   /\ UNCHANGED <<dirtyGlobals, sideEffectFuncs>>
               ELSE
                   /\ dirtyGlobals' = e.dirtyGlobals
                   /\ sideEffectFuncs' = e.sideEffectFuncs
                   /\ UNCHANGED pc
    /\ UNCHANGED <<block, cursor, initCalls, idx, mem, globals, stack, bbres, fnres,
                   err, given, trace>>

\* The side effects of a function are asked for and cached.
ClassifyStep ==
    /\ pc = "mark"
    /\ \E fn \in MarkFuncs :
        sideEffectFuncs' = Classify(sideEffectFuncs, fn, dirtyGlobals)
    /\ log' = <<>>
    /\ UNCHANGED <<pc, block, cursor, initCalls, idx, dirtyGlobals, mem, globals, stack,
                   bbres, fnres, err, given, trace>>

NextMark == MarkStep \/ ClassifyStep
SpecMark == InitMark /\ [][NextMark]_vars

----------------------------------------------------------------------------
(* The module as text, and the comparison the tests make.                  *)

NewLine == "\n"

\* s followed by a line end.
Line(s) == s \o <<NewLine>>

GlobalChars(g) == IF g = "g1" THEN <<"g", "1">> ELSE IF g = "g2" THEN <<"g", "2">> ELSE <<"k">>
Digit(n) == IF n = 0 THEN "0" ELSE IF n = 1 THEN "1" ELSE IF n = 2 THEN "2" ELSE "3"

\* The line of a global and its initializer.
GlobalLine(g, gl) ==
    Line(<<"@">> \o GlobalChars(g) \o <<" ", "=", " ">> \o
         (IF IsGlobalConstant(g) THEN <<"c", " ">> ELSE <<"g", " ">>) \o <<Digit(gl[g])>>)

\* The line of an instruction of the entry block.
InstLine(inst) ==
    Line(IF inst.op = "alloca" THEN <<" ", "%", "d", "=", "a">>
         ELSE IF inst.op = "ret" THEN <<" ", "r">>
         ELSE IF inst.direct THEN <<" ", "c", " ", "@">> \o FnName(inst.callee)
         ELSE <<" ", "c", " ", "%">>)

RECURSIVE InstLines(_, _)
InstLines(bb, i) == IF i > Len(bb) THEN <<>> ELSE InstLine(bb[i]) \o InstLines(bb, i + 1)

SourceFilenamePrefix ==
    <<"s", "o", "u", "r", "c", "e", "_", "f", "i", "l", "e", "n", "a", "m", "e",
      " ", "=", " ">>

\* mod.String() of the module with entry block bb and globals gl, read from
\* the file called name.
ModuleString(bb, gl, name) ==
    Line(<<";", " ", "M", " ">> \o name) \o
    Line(SourceFilenamePrefix \o name) \o
    Line(<<>>) \o
    GlobalLine("g1", gl) \o GlobalLine("g2", gl) \o GlobalLine("k", gl) \o
    Line(<<>>) \o
    Line(<<"d", "e", "f", " ", "{">>) \o
    InstLines(bb, 1) \o
    Line(<<"}">>)

\* strings.Split(s, "\n"), from position i on, cur being the line begun.
RECURSIVE SplitFrom(_, _, _)
SplitFrom(s, i, cur) ==
    IF i > Len(s) THEN <<cur>>
    ELSE IF s[i] = NewLine THEN <<cur>> \o SplitFrom(s, i + 1, <<>>)
    ELSE SplitFrom(s, i + 1, Append(cur, s[i]))

Split(s) == SplitFrom(s, 1, <<>>)

\* strings.HasPrefix
HasPrefix(s, prefix) ==
    /\ Len(s) >= Len(prefix)
    /\ SubSeq(s, 1, Len(prefix)) = prefix

\* filterIrrelevantIRLines without the test for source_filename lines.
filterCommentsOnly(lines) ==
    SelectSeq(lines, LAMBDA line : ~(line = <<>> \/ line[1] = ";"))

\* filterIrrelevantIRLines
filterIrrelevantIRLines(lines) ==
    SelectSeq(lines, LAMBDA line :
        /\ ~(line = <<>> \/ line[1] = ";")
        /\ ~HasPrefix(line, SourceFilenamePrefix))

\* fuzzyEqualIR
fuzzyEqualIR(s1, s2) ==
    LET lines1 == filterIrrelevantIRLines(Split(s1))
        lines2 == filterIrrelevantIRLines(Split(s2))
    IN  IF Len(lines1) # Len(lines2) THEN FALSE
        ELSE \A i \in 1..Len(lines1) : lines1[i] = lines2[i]

\* Most lines of a text given to fuzzyEqualIR.
MaxLines == 2

\* The lines the texts are made of: an empty line, a comment, a
\* source_filename line, two lines that count (the second with its ';' not
\* in front), and a line that stops short of the source_filename prefix.
TextLines ==
    {<<>>, <<";", "c">>, SourceFilenamePrefix \o <<"a">>, <<"x">>, <<" ", ";">>,
     SubSeq(SourceFilenamePrefix, 1, Len(SourceFilenamePrefix) - 1)}

\* The lines ls joined by line ends.
RECURSIVE Join(_)
Join(ls) ==
    IF ls = <<>> THEN <<>>
    ELSE IF Len(ls) = 1 THEN ls[1]
    ELSE ls[1] \o <<NewLine>> \o Join(Tail(ls))

\* The texts of at most MaxLines lines.
Texts == {Join(ls) : ls \in UNION {[1..k -> TextLines] : k \in 0..MaxLines}}

\* The expected and the actual text, before they are compared.
InitText ==
    /\ orig = <<RetVoid(1)>>
    /\ block = orig
    /\ pc = "text"
    /\ cursor = 0
    /\ initCalls = <<>>
    /\ idx = 0
    /\ dirtyGlobals = {}
    /\ sideEffectFuncs = {}
    /\ mem = InitialValue
    /\ globals = InitialValue
    /\ stack = <<>>
    /\ bbres = NoBBRes
    /\ fnres = NoFnRes
    /\ err = Pending
    /\ \E s1 \in Texts, s2 \in Texts :
        log = <<[ev |-> "texts", s1 |-> s1, s2 |-> s2]>>
    /\ runs = 1
    /\ debug = FALSE
    /\ trace = 0
    /\ first = NoOutcome
    /\ rv = NoValue
    /\ other = NoOther

\* fuzzyEqualIR(expected, actual)
FuzzyEqualStep ==
    /\ pc = "text"
    /\ pc' = "equal"
    /\ log' = Append(log, [ev |-> "equal", result |-> fuzzyEqualIR(log[1].s1, log[1].s2)])
    /\ UNCHANGED <<block, cursor, initCalls, idx, dirtyGlobals, sideEffectFuncs, mem,
                   globals, stack, bbres, fnres, err, given, trace>>

\* filterIrrelevantIRLines, on the lines of the expected text and then on
\* the lines it returned.
FilterStep ==
    /\ pc \in {"equal", "once"}
    /\ pc' = IF pc = "equal" THEN "once" ELSE "twice"
    /\ log' = Append(log, [ev |-> "filter",
                          lines |-> filterIrrelevantIRLines(
                              IF pc = "equal" THEN Split(log[1].s1)
                              ELSE log[Len(log)].lines)])
    /\ UNCHANGED <<block, cursor, initCalls, idx, dirtyGlobals, sideEffectFuncs, mem,
                   globals, stack, bbres, fnres, err, given, trace>>

NextText == FuzzyEqualStep \/ FilterStep
SpecText == InitText /\ [][NextText]_vars

----------------------------------------------------------------------------
(* Load-time execution, against which the evaluation is compared.          *)

\* Bound on the steps of one load-time execution of the functions above.
MaxSteps == 12

\* The globals after running function f at load time from memory m: the
\* frames in fs (innermost last) are executed to completion.
RECURSIVE LoadTimeRun(_, _, _)
LoadTimeRun(fs, m, fuel) ==
    IF fs = <<>> \/ fuel = 0 THEN m
    ELSE LET fr == fs[Len(fs)]
             b == Body(fr.fn)[fr.bb]
             rest == SubSeq(fs, 1, Len(fs) - 1)
             step(x) == Append(rest, x)
         IN  IF fr.ip <= Len(b.insts) THEN
                 LET inst == b.insts[fr.ip]
                     after == [fr EXCEPT !.ip = @ + 1]
                 IN  IF inst.op \in {"store", "storegep"} THEN
                         LoadTimeRun(step(after), [m EXCEPT ![inst.dst] = inst.val], fuel - 1)
                     ELSE IF inst.op = "copy" THEN
                         LoadTimeRun(step(after), [m EXCEPT ![inst.dst] = m[inst.src]], fuel - 1)
                     ELSE IF inst.op = "call" THEN
                         LoadTimeRun(Append(step(after), [fn |-> inst.callee, bb |-> 1, ip |-> 1]),
                                     m, fuel - 1)
                     ELSE LoadTimeRun(step(after), m, fuel - 1)
             ELSE IF b.term.op = "ret" THEN LoadTimeRun(rest, m, fuel - 1)
             ELSE IF b.term.op = "br" THEN
                 LoadTimeRun(step([fn |-> fr.fn, bb |-> b.term.target, ip |-> 1]), m, fuel - 1)
             ELSE IF b.term.op = "condbr" /\ b.term.cond # "unknown" THEN
                 LoadTimeRun(step([fn |-> fr.fn, ip |-> 1,
                                   bb |-> IF b.term.cond = "true" THEN b.term.target
                                          ELSE b.term.else]), m, fuel - 1)
             ELSE m

\* The globals after the calls of bb from position i on ran in order.
RECURSIVE LoadTimeAll(_, _, _)
LoadTimeAll(bb, i, m) ==
    IF i > Len(bb) \/ bb[i].op # "call" THEN m
    ELSE LoadTimeAll(bb, i + 1,
                     LoadTimeRun(<<[fn |-> bb[i].callee, bb |-> 1, ip |-> 1]>>, m, MaxSteps))

----------------------------------------------------------------------------
(* Package reflect: a Value, the memory it points into, and the operations *)
(* a program applies to it.                                                *)

valueFlagIndirect == 1
valueFlagExported == 2

\* unsafe.Sizeof(uintptr(0)), in bytes.
PtrSize == 2
\* Bytes of memory the program has.
HeapSize == 22

\* flags & bit != 0, flags | bit, flags &^ bit
HasFlag(flags, bit) == (flags \div bit) % 2 = 1
OrFlag(flags, bit) == IF HasFlag(flags, bit) THEN flags ELSE flags + bit
ClearFlag(flags, bit) == IF HasFlag(flags, bit) THEN flags - bit ELSE flags

\* The types of the program: T is struct { X int; y int }, S is
\* struct { A int8; b int8 }.
Types ==
    {"int", "int8", "uint8", "T", "S", "*T", "*int", "[2]int8", "[2]int", "[]int",
     "string"}
TypeSize(t) ==
    IF t \in {"int8", "uint8"} THEN 1
    ELSE IF t \in {"T", "[2]int", "string"} THEN 2 * PtrSize
    ELSE IF t \in {"S", "[2]int8"} THEN 2
    ELSE IF t = "[]int" THEN 3 * PtrSize
    ELSE PtrSize
TypeKind(t) ==
    IF t = "int" THEN "Int"
    ELSE IF t = "int8" THEN "Int8"
    ELSE IF t = "uint8" THEN "Uint8"
    ELSE IF t \in {"T", "S"} THEN "Struct"
    ELSE IF t \in {"*T", "*int"} THEN "Ptr"
    ELSE IF t \in {"[2]int8", "[2]int"} THEN "Array"
    ELSE IF t = "[]int" THEN "Slice"
    ELSE IF t = "string" THEN "String"
    ELSE "Invalid"
TypeElem(t) ==
    IF t = "*T" THEN "T"
    ELSE IF t = "[2]int8" THEN "int8"
    ELSE "int"
PtrTo(t) == IF t = "T" THEN "*T" ELSE "*int"
StructField(name, pkgPath, type, offset) ==
    [Name |-> name, PkgPath |-> pkgPath, Type |-> type, Offset |-> offset]
TypeFields(t) ==
    IF t = "T" THEN <<StructField("X", "", "int", 0), StructField("y", "main", "int", PtrSize)>>
    ELSE IF t = "S" THEN <<StructField("A", "", "int8", 0), StructField("b", "main", "int8", 1)>>
    ELSE <<>>

\* Memory: the bytes at addresses 1..HeapSize; address 0 is nil.
Addrs == 1..HeapSize
\* A T at address 1 (X = 1, y = 2); the copy of a T, or of a [2]int, an
\* interface holds at address 5 (3 and 4); at address 9 the header of a slice
\* of the two ints at address 1 (Data, Len, Cap); at address 15 the header of
\* a string of the two bytes at address 5 (Data, Len); unallocated zero bytes
\* from address 19 on.
InitialHeap ==
    [a \in Addrs |-> IF a = 1 THEN 1 ELSE IF a = 3 THEN 2 ELSE IF a = 5 THEN 3
                     ELSE IF a = 7 THEN 4 ELSE IF a = 9 THEN 1 ELSE IF a = 11 THEN 2
                     ELSE IF a = 13 THEN 2 ELSE IF a = 15 THEN 5
                     ELSE IF a = 17 THEN 2 ELSE 0]
InitialBrk == 19

\* The interface values the program passes to ValueOf: an int, a pointer to
\* the T at address 1, a T and a [2]int (bigger than a pointer, so held by
\* address), an S and a [2]int8 (held in the interface word itself), a slice
\* and a string (held by the address of their headers).
interfaceHeader(typecode, value) == [typecode |-> typecode, value |-> value]
Interfaces ==
    {interfaceHeader("int", 7), interfaceHeader("*T", 1), interfaceHeader("T", 5),
     interfaceHeader("S", 513), interfaceHeader("[2]int8", 513),
     interfaceHeader("[2]int", 5), interfaceHeader("[]int", 9),
     interfaceHeader("string", 15)}

Value(typecode, value, flags) == [typecode |-> typecode, value |-> value, flags |-> flags]
ZeroValue == Value("invalid", 0, 0)

isIndirect(v) == HasFlag(v.flags, valueFlagIndirect)

ValueOf(i) == Value(i.typecode, i.value, valueFlagExported)

CanSet(v) == HasFlag(v.flags, valueFlagExported) /\ HasFlag(v.flags, valueFlagIndirect)

\* loadValue: size bytes from ptr on, the lowest first, in a uintptr.
RECURSIVE loadValue(_, _, _)
loadValue(heap, ptr, size) ==
    IF size = 0 THEN 0
    ELSE (heap[ptr] + 256 * loadValue(heap, ptr + 1, size - 1)) % (256 ^ PtrSize)

\* maskAndShift
maskAndShift(value, offset, size) ==
    LET mask == ((256 ^ PtrSize) - 1) \div (256 ^ (PtrSize - size))
    IN  (value \div (256 ^ offset)) % (mask + 1)

\* The heap with the size low bytes of x stored at ptr, the lowest first.
StoreBytes(heap, ptr, size, x) ==
    [a \in Addrs |-> IF a >= ptr /\ a < ptr + size
                     THEN (x \div (256 ^ (a - ptr))) % 256
                     ELSE heap[a]]

\* The result of an operation that panicked.
Panic == [panic |-> TRUE]
Result(v) == [panic |-> FALSE, v |-> v]

\* Elem with the exported flag set on whatever it returns.
ElemAlwaysExported(v, heap) ==
    IF TypeKind(v.typecode) = "Ptr" THEN
        LET ptr == IF isIndirect(v) THEN loadValue(heap, v.value, PtrSize) ELSE v.value
        IN  IF ptr = 0 THEN Result(ZeroValue)
            ELSE Result(Value(TypeElem(v.typecode), ptr,
                              OrFlag(valueFlagExported, valueFlagIndirect)))
    ELSE Panic

\* (Value).Elem
Elem(v, heap) ==
    IF TypeKind(v.typecode) = "Ptr" THEN
        LET ptr == IF isIndirect(v) THEN loadValue(heap, v.value, PtrSize) ELSE v.value
        IN  IF ptr = 0 THEN Result(ZeroValue)
            ELSE Result(Value(TypeElem(v.typecode), ptr, OrFlag(v.flags, valueFlagIndirect)))
    ELSE Panic

\* (Value).Field
Field(v, i, heap) ==
    IF TypeKind(v.typecode) # "Struct" \/ i > Len(TypeFields(v.typecode)) THEN Panic
    ELSE
        LET structField == TypeFields(v.typecode)[i]
            flags == IF structField.PkgPath # ""
                     THEN ClearFlag(v.flags, valueFlagExported) ELSE v.flags
            size == TypeSize(v.typecode)
            fieldSize == TypeSize(structField.Type)
        IN  IF isIndirect(v) \/ fieldSize > PtrSize THEN
                Result(Value(structField.Type, v.value + structField.Offset, flags))
            ELSE IF fieldSize = 0 THEN
                Result(Value(structField.Type, 0, flags))
            ELSE IF size > PtrSize THEN
                Result(Value(structField.Type,
                             loadValue(heap, v.value + structField.Offset, fieldSize), 0))
            ELSE
                Result(Value(structField.Type,
                             maskAndShift(v.value, structField.Offset, fieldSize), flags))

\* Indirect
Indirect(v, heap) ==
    IF TypeKind(v.typecode) # "Ptr" THEN Result(v) ELSE Elem(v, heap)

\* (Value).Index, with i counted from 0.
Index(v, i, heap) ==
    IF TypeKind(v.typecode) = "Slice" THEN
        LET Data == loadValue(heap, v.value, PtrSize)
            Length == loadValue(heap, v.value + PtrSize, PtrSize)
            elem == TypeElem(v.typecode)
        IN  IF i >= Length THEN Panic
            ELSE Result(Value(elem, Data + TypeSize(elem) * i,
                              OrFlag(v.flags, valueFlagIndirect)))
    ELSE IF TypeKind(v.typecode) = "String" THEN
        LET Data == loadValue(heap, v.value, PtrSize)
            Length == loadValue(heap, v.value + PtrSize, PtrSize)
        IN  IF i >= Length THEN Panic
            ELSE Result(Value("uint8", heap[Data + i], 0))
    ELSE IF TypeKind(v.typecode) = "Array" THEN
        LET elemType == TypeElem(v.typecode)
            elemSize == TypeSize(elemType)
            size == TypeSize(v.typecode)
        IN  IF size = 0 THEN Result(Value(elemType, 0, v.flags))
            ELSE IF elemSize > PtrSize THEN
                Result(Value(elemType, v.value + elemSize * i, v.flags))
            ELSE IF size > PtrSize THEN
                Result(Value(elemType, loadValue(heap, v.value + elemSize * i, elemSize),
                             v.flags))
            ELSE
                Result(Value(elemType, maskAndShift(v.value, elemSize * i, elemSize),
                             v.flags))
    ELSE Panic

\* The word Interface puts together from the bytes of an indirect value: the
\* bytes from the highest address down, each shifted in below the others.
RECURSIVE InterfaceWord(_, _, _, _)
InterfaceWord(heap, ptr, j, value) ==
    IF j = 0 THEN value
    ELSE InterfaceWord(heap, ptr, j - 1,
                       ((value * 256) % (256 ^ PtrSize)) + heap[ptr + j - 1])

\* Interface that puts the bytes together from the lowest address up.
RECURSIVE InterfaceWordUp(_, _, _, _)
InterfaceWordUp(heap, ptr, j, value) ==
    IF j = 0 THEN value
    ELSE InterfaceWordUp(heap, ptr + 1, j - 1,
                         ((value * 256) % (256 ^ PtrSize)) + heap[ptr])

InterfaceBigEndian(v, heap) ==
    IF isIndirect(v) /\ TypeSize(v.typecode) <= PtrSize
    THEN interfaceHeader(v.typecode, InterfaceWordUp(heap, v.value, TypeSize(v.typecode), 0))
    ELSE interfaceHeader(v.typecode, v.value)

\* (Value).Interface
Interface(v, heap) ==
    IF isIndirect(v) /\ TypeSize(v.typecode) <= PtrSize
    THEN interfaceHeader(v.typecode, InterfaceWord(heap, v.value, TypeSize(v.typecode), 0))
    ELSE interfaceHeader(v.typecode, v.value)

\* (Value).checkAddressable: whether it panics.
checkAddressable(v) == ~isIndirect(v)

\* (Value).SetInt: the heap it leaves, or a panic.
SetInt(v, x, heap) ==
    IF checkAddressable(v) THEN Panic
    ELSE IF TypeKind(v.typecode) = "Int" THEN Result(StoreBytes(heap, v.value, PtrSize, x))
    ELSE IF TypeKind(v.typecode) = "Int8" THEN Result(StoreBytes(heap, v.value, 1, x))
    ELSE Panic

\* Where the Value the program holds came from: ValueOf(i), New(typ) (with
\* the pointer it allocated), or an operation on another Value.
Origin(op, typecode, value) == [op |-> op, i |-> interfaceHeader(typecode, value)]
Derived == Origin("derived", "invalid", 0)

\* No interface value made from the Value held.
NoInterface == [valid |-> FALSE, i |-> interfaceHeader("invalid", 0)]
\* No type assertion made on it.
NoAssert == [t |-> "none", ok |-> FALSE]

\* The state of the program using reflect: the Value it holds, memory, the
\* next free address, whether the Value was reached through an unexported
\* field, and whether the program has panicked; the last operation, where the
\* Value came from, the result of Interface() and of a type assertion on it;
\* and whether the program mentions the pointer type elsewhere
\* (reflect.TypeOf((*int)(nil))).
ReflectState(v, heap, brk, unexported, panicked) ==
    [valid |-> TRUE, v |-> v, heap |-> heap, brk |-> brk, unexported |-> unexported,
     panicked |-> panicked, op |-> "none", from |-> Derived, iface |-> NoInterface,
     assert |-> NoAssert, ptrTypeUsed |-> FALSE]

InitReflect ==
    /\ orig = <<RetVoid(1)>>
    /\ block = orig
    /\ pc = "start"
    /\ cursor = 0
    /\ initCalls = <<>>
    /\ idx = 0
    /\ dirtyGlobals = {}
    /\ sideEffectFuncs = {}
    /\ mem = InitialValue
    /\ globals = InitialValue
    /\ stack = <<>>
    /\ bbres = NoBBRes
    /\ fnres = NoFnRes
    /\ err = Pending
    /\ log = <<>>
    /\ runs = 1
    /\ debug = FALSE
    /\ trace = 0
    /\ first = NoOutcome
    /\ \E used \in BOOLEAN :
        rv = [ReflectState(ZeroValue, InitialHeap, InitialBrk, FALSE, FALSE)
                 EXCEPT !.ptrTypeUsed = used]
    /\ other = NoOther

interp == <<pc, block, cursor, initCalls, idx, dirtyGlobals, sideEffectFuncs, mem,
            globals, stack, bbres, fnres, err, orig, log, runs, debug, trace, first,
            other>>

\* What the program holds after operation op returned r.
Holding(r, unexported, op, from) ==
    IF r.panic THEN [rv EXCEPT !.panicked = TRUE, !.op = op]
    ELSE [rv EXCEPT !.v = r.v, !.unexported = unexported, !.op = op, !.from = from,
                    !.iface = NoInterface, !.assert = NoAssert]

\* v := reflect.ValueOf(i)
CallValueOf ==
    /\ rv.valid /\ ~rv.panicked
    /\ \E i \in Interfaces :
        rv' = Holding(Result(ValueOf(i)), FALSE, "ValueOf",
                      Origin("ValueOf", i.typecode, i.value))
    /\ UNCHANGED interp

\* v = v.Elem()
CallElem ==
    /\ rv.valid /\ ~rv.panicked
    /\ rv' = Holding(Elem(rv.v, rv.heap), rv.unexported, "Elem", Derived)
    /\ UNCHANGED interp

\* v = reflect.Indirect(v)
CallIndirect ==
    /\ rv.valid /\ ~rv.panicked
    /\ rv' = Holding(Indirect(rv.v, rv.heap), rv.unexported, "Indirect", Derived)
    /\ UNCHANGED interp

\* v = v.Field(i)
CallField ==
    /\ rv.valid /\ ~rv.panicked
    /\ \E i \in 1..2 :
        rv' = Holding(Field(rv.v, i, rv.heap),
                      rv.unexported \/
                      (/\ i <= Len(TypeFields(rv.v.typecode))
                       /\ TypeFields(rv.v.typecode)[i].PkgPath # ""),
                      "Field", Derived)
    /\ UNCHANGED interp

\* v = v.Index(i)
CallIndex ==
    /\ rv.valid /\ ~rv.panicked
    /\ \E i \in 0..2 :
        rv' = Holding(Index(rv.v, i, rv.heap), rv.unexported, "Index", Derived)
    /\ UNCHANGED interp

\* The integers the program passes to SetInt.
SetIntArgs == {5, 300}

\* v.SetInt(x)
CallSetInt ==
    /\ rv.valid /\ ~rv.panicked
    /\ \E x \in SetIntArgs :
        LET r == SetInt(rv.v, x, rv.heap)
        IN  rv' = IF r.panic THEN [rv EXCEPT !.panicked = TRUE, !.op = "SetInt"]
                  ELSE [rv EXCEPT !.heap = r.v, !.op = "SetInt",
                                  !.iface = NoInterface, !.assert = NoAssert]
    /\ UNCHANGED interp

\* v = reflect.New(typ), while memory lasts.
CallNew ==
    /\ rv.valid /\ ~rv.panicked
    /\ \E typ \in {"int", "T"} :
        /\ rv.brk + TypeSize(typ) <= HeapSize + 1
        /\ rv' = [rv EXCEPT !.v = Value(PtrTo(typ), rv.brk, 0),
                            !.brk = rv.brk + TypeSize(typ),
                            !.unexported = FALSE,
                            !.op = "New",
                            !.from = Origin("New", typ, rv.brk),
                            !.iface = NoInterface, !.assert = NoAssert]
    /\ UNCHANGED interp

\* i := v.Interface()
CallInterface ==
    /\ rv.valid /\ ~rv.panicked
    /\ ~rv.iface.valid
    /\ rv' = [rv EXCEPT !.iface = [valid |-> TRUE, i |-> Interface(rv.v, rv.heap)],
                        !.op = "Interface"]
    /\ UNCHANGED interp

\* The types the compiled program has a type code for: those of the values
\* it puts into interfaces, and *int if it mentions it.
AssertableTypes(used) ==
    {i.typecode : i \in Interfaces} \cup (IF used THEN {"*int"} ELSE {})

\* i.(t)
TypeAssert(i, t, used) == i.typecode = t /\ t \in AssertableTypes(used)

\* _, ok := i.(t) for a pointer type t
CallTypeAssert ==
    /\ rv.valid /\ ~rv.panicked
    /\ rv.iface.valid /\ rv.assert = NoAssert
    /\ \E t \in {"*int", "*T"} :
        rv' = [rv EXCEPT !.assert = [t |-> t,
                                     ok |-> TypeAssert(rv.iface.i, t, rv.ptrTypeUsed)],
                         !.op = "TypeAssert"]
    /\ UNCHANGED interp

NextReflect ==
    \/ CallValueOf
    \/ CallElem
    \/ CallIndirect
    \/ CallField
    \/ CallIndex
    \/ CallSetInt
    \/ CallNew
    \/ CallInterface
    \/ CallTypeAssert

SpecReflect == InitReflect /\ [][NextReflect]_vars

----------------------------------------------------------------------------
(* Properties.                                                             *)

Ids(bb) == {bb[i].id : i \in 1..Len(bb)}
Evals == SelectSeq(log, LAMBDA x : x.ev \in {"start", "end"})
Ended(e) == {i \in 1..Len(log) : log[i].ev = "end" /\ log[i].err = e}
\* The instructions after the one with id k.
After(bb, k) == SelectSeq(bb, LAMBDA x : x.id > k)
\* The log entry of the erasure that preceded log entry i.
EraseOf(i) == log[CHOOSE j \in 1..i : log[j].ev = "erase" /\ log[j].call = log[i].call]
FatalErrors == {"notDirectCalls", "notInitCalls", "writeToConstant", "escapingAllocation"}
\* Every instruction before the return was a call that evaluated without error.
AllSucceeded ==
    \A i \in 1..(Len(orig) - 1) : \E j \in Ended(Nil) : log[j].call = orig[i].id

\* C1: the init calls are evaluated one at a time in the order of the input
\* block; an evaluation starts only when every earlier one has ended, from the
\* dirty-set and the abstract memory the previous one left.
C1_InOrder ==
    /\ \A p \in 1..Len(Evals) :
        IF p % 2 = 1 THEN
            /\ Evals[p].ev = "start"
            /\ Evals[p].call = orig[(p + 1) \div 2].id
            /\ IF p = 1
               THEN Evals[p].dirty = {} /\ Evals[p].memory = InitialValue
               ELSE /\ Evals[p].dirty = Evals[p - 1].dirty
                    /\ Evals[p].memory = Evals[p - 1].memory
        ELSE
            /\ Evals[p].ev = "end"
            /\ Evals[p].call = Evals[p - 1].call
    /\ stack # <<>> =>
        /\ Len(Evals) % 2 = 1
        /\ Evals[Len(Evals)].call = initCalls[idx].id

C1_Witness ==
    /\ Len(Evals) >= 3
    /\ Evals[3].ev = "start"
    /\ Evals[3].dirty # {}
    /\ Evals[3].memory # InitialValue

\* C2: once the evaluation of the k-th call has failed with unevaluable,
\* nothing more is erased or evaluated and the instructions after the k-th
\* are those of the input, in order.
C2_CeaseOnUnevaluable ==
    \A i \in Ended("unevaluable") :
        /\ i = Len(log)
        /\ stack = <<>>
        /\ \A j \in 1..Len(log) : log[j].call <= log[i].call
        /\ After(block, log[i].call) = After(orig, log[i].call)

C2_Witness ==
    \E i \in Ended("unevaluable") :
        /\ pc = "done"
        /\ Len(After(orig, log[i].call)) >= 2

\* C3: after an init failed with unevaluable, the entry block, the dirty-set
\* and the abstract memory are those seen on entry to that init.
C3_RolledBack ==
    \A i \in Ended("unevaluable") :
        /\ block = EraseOf(i).bb
        /\ dirtyGlobals = EraseOf(i).dirty
        /\ mem = EraseOf(i).memory

\* C4: Run returns an error only of a fatal kind; after a local error it
\* returns nil.
C4_OnlyFatalReturned ==
    pc = "done" => err = Nil \/ err \in FatalErrors

\* C5: once an evaluation has returned ErrUnreachable, its call stays erased,
\* no later call is erased or evaluated, and Run returns nil.
C5_StopOnUnreachable ==
    \A i \in Ended("unreachable") :
        /\ i = Len(log)
        /\ stack = <<>>
        /\ log[i].call \notin Ids(block)
        /\ After(block, log[i].call) = After(orig, log[i].call)
        /\ pc \in {"writeback", "return", "done"}
        /\ err = IF pc = "done" THEN Nil ELSE Pending

C5_Witness ==
    \E i \in Ended("unreachable") :
        /\ pc = "done"
        /\ Len(After(orig, log[i].call)) >= 2

\* C6: when an instruction before the return of the input block is not a
\* direct call, nothing is ever erased or evaluated and Run returns the
\* malformed-IR error.
C6_MalformedBeforeErase ==
    (\E i \in 1..Len(orig) :
        orig[i].op # "ret" /\ (orig[i].op # "call" \/ ~orig[i].direct))
    => /\ log = <<>>
       /\ stack = <<>>
       /\ block \in {orig, <<dummy>> \o orig}
       /\ pc \in {"start", "collect", "done"}
       /\ err = IF pc = "done" THEN "notDirectCalls" ELSE Pending

C6_Witness ==
    /\ pc = "done"
    /\ err = "notDirectCalls"
    /\ Len(initCalls) >= 1

C8_RemainingInOrder ==
    /\ \A i, j \in 1..Len(block) : i < j => block[i].id < block[j].id
    /\ \A i \in 1..Len(block) : block[i] = dummy \/ block[i] = orig[block[i].id]
    /\ \A i \in Ended(Nil) : log[i].call \notin Ids(block)
    /\ (pc = "done" /\ AllSucceeded) =>
        /\ err = Nil
        /\ \A i \in 1..Len(block) : block[i].op # "call"

C8_Witness ==
    /\ pc = "done"
    /\ AllSucceeded
    /\ Len(orig) = 3

C10_DirtyOnlyGrows == [][dirtyGlobals \subseteq dirtyGlobals']_vars

C10_Witness ==
    /\ pc = "done"
    /\ err = Nil
    /\ dirtyGlobals = {"g1", "g2"}

\* C11: a step that adds a global to the dirty-set empties the side-effect
\* cache, so every cached classification was computed against the dirty-set
\* as it is now.
C11_CacheDiscarded ==
    [][/\ dirtyGlobals' # dirtyGlobals => sideEffectFuncs' = {}
       /\ \A r \in sideEffectFuncs' : r.dirty = dirtyGlobals']_vars

C11_Witness ==
    /\ Len(stack) = 2
    /\ Top.fn = "H" /\ Top.ip = 2
    /\ "g2" \in dirtyGlobals
    /\ sideEffectFuncs = {}

\* C12: a second Run on the module the first Run left changes neither the
\* entry block nor the globals.
C12_Idempotent ==
    (first.valid /\ pc = "done") => (block = first.bb /\ globals = first.globals)

\* C13: Run with the other value of the debug flag on an equal module leaves
\* the same entry block, globals and dirty-set and returns the same error.
C13_DebugOnlyTraces ==
    (first.valid /\ pc = "done" /\ debug # first.debug) =>
        /\ block = first.bb
        /\ globals = first.globals
        /\ dirtyGlobals = first.dirty
        /\ err = first.err

C13_Witness ==
    /\ first.valid /\ pc = "done"
    /\ debug /\ ~first.debug
    /\ trace >= 4
    /\ dirtyGlobals = {"g1", "g2"}

C15_RecursionRemains ==
    /\ Len(stack) <= MaxDepth
    /\ pc # "panic"
    /\ \A i \in Ended("unevaluable") : \A j \in 1..Len(orig) :
          (orig[j].id = log[i].call /\ orig[j].callee = "R") =>
              log[i].call \in Ids(block)

\* C16: a store to a constant global ends the init with writeToConstant, which
\* Run returns; the constant keeps its initializer in the abstract memory and
\* in the module and is never marked dirty.
C16_ConstantNeverWritten ==
    /\ mem["k"] = InitialValue["k"]
    /\ globals["k"] = InitialValue["k"]
    /\ "k" \notin dirtyGlobals
    /\ \A i \in Ended("writeToConstant") : pc = "done" /\ err = "writeToConstant"

C16_Witness ==
    /\ pc = "done" /\ err = "writeToConstant"
    /\ Ended("writeToConstant") # {}
    /\ dirtyGlobals # {}

\* C17: once evalBasicBlock has reported a return or an error (no outgoing
\* block), the next step ends the frame with exactly that result: no further
\* block of it is evaluated, and the result stays as it is until the caller
\* takes it.
C17_TerminalFrame ==
    [][/\ (pc = "eval" /\ stack # <<>> /\ bbres.valid /\ bbres.outgoing = <<>>) =>
            /\ stack' = SubSeq(stack, 1, Len(stack) - 1)
            /\ fnres' = [valid |-> TRUE, err |-> bbres.err]
            /\ ~bbres'.valid
       /\ (fnres.valid /\ fnres'.valid) => fnres' = fnres
       /\ (fnres.valid /\ stack # <<>>) =>
            (bbres'.valid => bbres' = Failed(fnres.err))]_vars

C17_Witness ==
    /\ fnres.valid /\ fnres.err = "unevaluable"
    /\ Len(stack) = 2
    /\ ~bbres.valid

\* C18: no operation changes memory while the Value the program holds was
\* reached through an unexported struct field.
C18_UnexportedNotWritten ==
    [][(rv.valid /\ rv.unexported) => rv'.heap = rv.heap]_vars

\* C19: a store through a constant getelementptr over a global leaves the
\* dirty-set and the side-effect cache exactly as markDirty on the global
\* itself would: the global is added, and the cache is emptied if it was new.
C19_GepMarksGlobal ==
    [][(/\ InBlock
        /\ Top.ip <= Len(CurBlock.insts)
        /\ CurBlock.insts[Top.ip].op = "storegep"
        /\ ~IsGlobalConstant(CurBlock.insts[Top.ip].dst)) =>
           LET g == CurBlock.insts[Top.ip].dst
               e == markDirty(GlobalVar(g), [dirtyGlobals |-> dirtyGlobals,
                                             sideEffectFuncs |-> sideEffectFuncs])
           IN  /\ dirtyGlobals' = e.dirtyGlobals
               /\ sideEffectFuncs' = e.sideEffectFuncs
               /\ dirtyGlobals' = dirtyGlobals \cup {g}
               /\ sideEffectFuncs' = IF g \in dirtyGlobals THEN sideEffectFuncs ELSE {}]_vars

C19_Witness ==
    /\ stack # <<>>
    /\ Top.fn = "G" /\ Top.bb = 1 /\ Top.ip = 3
    /\ dirtyGlobals = {"g1"}
    /\ sideEffectFuncs = {}

Successors(t) ==
    IF t.op = "br" THEN {t.target}
    ELSE IF t.op = "condbr" THEN {t.target, t.else}
    ELSE {}

\* C21: the predecessor a frame holds while it evaluates a block is nil for
\* the entry block and otherwise the block it evaluated immediately before,
\* whose terminator selected the present block; it changes only when the
\* frame moves to another block.
C21_Predecessor ==
    [][/\ \A k \in 1..Len(stack) :
            IF stack[k].lastBB = 0 THEN stack[k].bb = 1
            ELSE stack[k].bb \in Successors(Body(stack[k].fn)[stack[k].lastBB].term)
       /\ Len(stack') > Len(stack) =>
            (stack'[Len(stack')].bb = 1 /\ stack'[Len(stack')].lastBB = 0)
       /\ \A k \in 1..Len(stack) : k <= Len(stack') =>
            IF stack'[k].bb # stack[k].bb
            THEN /\ k = Len(stack)
                 /\ bbres.valid /\ bbres.outgoing = <<stack'[k].bb>>
                 /\ stack'[k].lastBB = stack[k].bb
            ELSE stack'[k].lastBB = stack[k].lastBB]_vars

C21_Witness ==
    /\ Len(stack) = 1
    /\ Top.fn = "I" /\ Top.bb = 3 /\ Top.lastBB = 2 /\ Top.ip = 2
    /\ mem["g1"] = 1

\* The two Runs of the parallel phase.
Runs == {Self(3 - other.id), other}
\* The Run on the module equal to the one that was run alone.
RunOne == IF other.id = 2 THEN Self(1) ELSE other

\* C22: a Run that has not yet evaluated anything holds an empty dirty-set and
\* an empty side-effect cache, and a Run in parallel with another Run ends, in
\* every interleaving, with the entry block, globals, dirty-set and error it
\* ends with when run alone.
C22_ParallelAsAlone ==
    /\ pc = "collect" => (dirtyGlobals = {} /\ sideEffectFuncs = {})
    /\ (first.valid /\ other.valid) =>
         \A p \in Runs :
            /\ p.pc = "collect" => (p.dirtyGlobals = {} /\ p.sideEffectFuncs = {})
            /\ (p.pc = "done" /\ p.orig = RunOne.orig) =>
                 /\ p.block = first.bb
                 /\ p.globals = first.globals
                 /\ p.dirtyGlobals = first.dirty
                 /\ p.err = first.err

C22_Witness ==
    /\ first.valid /\ other.valid
    /\ pc = "done" /\ other.pc = "done"
    /\ orig # other.orig
    /\ RunOne.dirtyGlobals = {"g1", "g2"}
    /\ RunOne.err = Nil
    /\ \E p \in Runs : p.err = "unevaluable" /\ p.dirtyGlobals = {"g2"}

\* C23: when Run returns the error about a call that is no *.init call, that
\* call is the first such call of the input block; every call before it was
\* erased and evaluated to its end, and it and every later instruction are in
\* the entry block, in their order, and were never erased or evaluated.
C23_NameCheckedPerCall ==
    (pc = "done" /\ err = "notInitCalls") =>
        \E k \in 1..Len(orig) :
            /\ orig[k].op = "call" /\ orig[k].direct
            /\ ~HasSuffix(FnName(orig[k].callee), DotInit)
            /\ Len(initCalls) = Len(orig) - 1
            /\ \A j \in 1..(k - 1) :
                /\ HasSuffix(FnName(orig[j].callee), DotInit)
                /\ orig[j].id \notin Ids(block)
                /\ \E i \in Ended(Nil) : log[i].call = orig[j].id
            /\ \A j \in k..Len(orig) :
                /\ orig[j].id \in Ids(block)
                /\ \A i \in 1..Len(log) : log[i].call # orig[j].id
            /\ SelectSeq(block, LAMBDA x : x.id >= orig[k].id) = SubSeq(orig, k, Len(orig))

C23_Witness ==
    /\ pc = "done" /\ err = "notInitCalls"
    /\ idx = 2
    /\ Ended(Nil) # {}
    /\ dirtyGlobals # {}

\* C24: markDirty changes the dirty-set and the side-effect cache only when
\* its argument is a non-constant global, or a constant getelementptr over
\* one, that is not yet dirty: then the global is added and the cache emptied.
\* On every other value it changes nothing and returns; no global constant
\* is ever in the dirty-set.
C24_OnlyNewGlobals ==
    /\ dirtyGlobals \cap ConstGlobals = {}
    /\ (log # <<>> /\ log[1].ev = "mark") =>
         LET a == log[1].arg
             new == /\ a.is \in {"global", "gep"}
                    /\ ~IsGlobalConstant(a.g)
                    /\ a.g \notin log[1].dirty
         IN  IF new
             THEN dirtyGlobals = log[1].dirty \cup {a.g} /\ sideEffectFuncs = {}
             ELSE /\ dirtyGlobals = log[1].dirty
                  /\ sideEffectFuncs = log[1].cache
                  /\ pc # "panic"

\* C25: an error evalBasicBlock reports comes without an outgoing block; the
\* frame ends on the next step and hands that error to its caller, where it
\* ends the caller's block (or, for the frame of an init, reaches Run); the
\* failed frame is not among the frames afterwards.
C25_ErrorsReturned ==
    [][/\ (bbres.valid /\ bbres.err # Nil) =>
            /\ bbres.outgoing = <<>>
            /\ stack # <<>>
            /\ fnres' = [valid |-> TRUE, err |-> bbres.err]
            /\ stack' = SubSeq(stack, 1, Len(stack) - 1)
       /\ (fnres.valid /\ fnres.err # Nil /\ stack # <<>>) =>
            /\ bbres' = Failed(fnres.err)
            /\ stack' = stack
       /\ (fnres.valid /\ fnres.err # Nil /\ stack = <<>>) =>
            /\ Len(log') = Len(log) + 1
            /\ log'[Len(log')].ev = "end"
            /\ log'[Len(log')].err = fnres.err
            /\ stack' = <<>>]_vars

C25_Witness ==
    /\ fnres.valid /\ fnres.err = "unevaluable"
    /\ Len(stack) = 1
    /\ Top.fn = "R" /\ Top.ip = 2

\* C26: every evaluation of a function comes to an end: whenever there are
\* frames, a state without frames follows.
C26_Terminates == (stack # <<>>) ~> (stack = <<>>)

\* C27: a Value gets the exported flag only from ValueOf: a step from a Value
\* without it to a Value with it is a ValueOf; Field, Index, Elem and Indirect
\* of a Value without it give a Value without it, for which CanSet is false;
\* the Value of New and a Value reached through an unexported field are
\* without it; and CanSet holds only of a Value with both flags.
C27_ExportedOnlyFromValueOf ==
    [][/\ rv.valid /\ rv'.valid
       /\ (~HasFlag(rv.v.flags, valueFlagExported) /\ HasFlag(rv'.v.flags, valueFlagExported))
            => rv'.op = "ValueOf"
       /\ (/\ rv'.op \in {"Field", "Index", "Elem", "Indirect"}
           /\ ~HasFlag(rv.v.flags, valueFlagExported))
            => ~HasFlag(rv'.v.flags, valueFlagExported) /\ ~CanSet(rv'.v)
       /\ (rv'.op = "New" \/ rv'.unexported) => ~CanSet(rv'.v)
       /\ CanSet(rv'.v) => rv'.v.flags = valueFlagExported + valueFlagIndirect]_vars

\* The int that New allocated, reached with Elem: indirect, not exported.
C27_Witness ==
    /\ rv.valid /\ ~rv.panicked
    /\ rv.op = "Elem"
    /\ rv.v.typecode = "int" /\ rv.v.value >= InitialBrk
    /\ rv.v.flags = valueFlagIndirect
    /\ ~CanSet(rv.v)

\* C28: Interface undoes ValueOf: the interface value made from ValueOf(i)
\* has the type code and the value word of i; the one made from New(typ) has
\* the type code PtrTo(typ) and the allocated pointer as its value, and the
\* type assertion to that pointer type on it succeeds.
C28_InterfaceInvertsValueOf ==
    (rv.valid /\ rv.iface.valid) =>
        /\ rv.from.op = "ValueOf" => rv.iface.i = rv.from.i
        /\ rv.from.op = "New" =>
            /\ rv.iface.i = interfaceHeader(PtrTo(rv.from.i.typecode), rv.from.i.value)
            /\ rv.assert.t = PtrTo(rv.from.i.typecode) => rv.assert.ok

\* Byte j of the word w, counted from the lowest.
ByteOf(w, j) == (w \div (256 ^ j)) % 256

\* C29: the word Interface puts together for an indirect Value of a size s
\* not above the pointer size is loadValue(v.value, s): its byte j is the
\* byte of memory at v.value + j for j < s, and its bytes from s on are zero;
\* and maskAndShift(w, offset, size) has the bytes offset..offset+size-1 of w
\* as its lowest bytes and zero above them.
C29_InterfaceWordLittleEndian ==
    /\ (rv.valid /\ rv.iface.valid /\ isIndirect(rv.v)
        /\ TypeSize(rv.v.typecode) <= PtrSize) =>
            LET s == TypeSize(rv.v.typecode)
                w == rv.iface.i.value
            IN  /\ w = loadValue(rv.heap, rv.v.value, s)
                /\ \A j \in 0..(PtrSize - 1) :
                    ByteOf(w, j) = IF j < s THEN rv.heap[rv.v.value + j] ELSE 0
                /\ w < 256 ^ PtrSize
    /\ rv.valid =>
        \A w \in {rv.v.value} \cup {i.value : i \in Interfaces} :
            \A offset \in 0..(PtrSize - 1) :
                \A size \in 0..(PtrSize - offset) :
                    \A j \in 0..(PtrSize - 1) :
                        ByteOf(maskAndShift(w, offset, size), j) =
                            IF j < size THEN ByteOf(w, offset + j) ELSE 0

\* The interface value of the int field X of the T at address 1 after
\* SetInt(300): both bytes of the word are in use.
C29_Witness ==
    /\ rv.valid /\ rv.iface.valid /\ ~rv.panicked
    /\ isIndirect(rv.v) /\ rv.v.typecode = "int" /\ rv.v.value = 1
    /\ rv.heap[1] = 44 /\ rv.heap[2] = 1
    /\ rv.iface.i.value = 300
    /\ maskAndShift(rv.iface.i.value, 1, 1) = 1

\* Whether a line does not count: it is empty, begins with ';', or begins
\* with "source_filename = ".
Irrelevant(line) ==
    \/ Len(line) = 0
    \/ line[1] = ";"
    \/ /\ Len(line) >= Len(SourceFilenamePrefix)
       /\ \A k \in 1..Len(SourceFilenamePrefix) : line[k] = SourceFilenamePrefix[k]

\* The lines that count, in their order.
RECURSIVE Relevant(_)
Relevant(lines) ==
    IF lines = <<>> THEN <<>>
    ELSE IF Irrelevant(Head(lines)) THEN Relevant(Tail(lines))
    ELSE <<Head(lines)>> \o Relevant(Tail(lines))

\* C30: fuzzyEqualIR(s1, s2) is true exactly when the lines of s1 that count
\* are the lines of s2 that count, in the same order; the filter returns the
\* lines that count in their order, and returns the same when applied to its
\* own result.
C30_FuzzyEqualIsEqualAfterFilter ==
    pc \in {"equal", "once", "twice"} =>
        \A k \in 2..Len(log) :
            /\ log[k].ev = "equal" =>
                log[k].result = (Relevant(Split(log[1].s1)) = Relevant(Split(log[1].s2)))
            /\ log[k].ev = "filter" => log[k].lines = Relevant(Split(log[1].s1))

\* Two different texts found equal, one of them with a line that counts and
\* a line that does not, after the filter was applied twice.
C30_Witness ==
    /\ pc = "twice"
    /\ log[1].s1 # log[1].s2
    /\ log[2].result
    /\ Len(Split(log[1].s1)) = 2
    /\ log[3].lines = <<<<" ", ";">>>>
    /\ log[4].lines = log[3].lines

====
